---- MODULE Spec2Model ----
(***************************************************************************)
(* A model of bot.py: the ServerDatabase tenant store, the Discord event   *)
(* and slash-command handlers that mutate it, and monitoring_task, the     *)
(* polling loop that fans leaderboard activity out to every active server. *)
(*                                                                         *)
(* The program runs on one asyncio event loop.  Code between two awaits     *)
(* runs without interruption; a handler can only run while the polling      *)
(* loop is suspended in an await (asyncio.sleep, fetch_leaderboard,        *)
(* fetch_diff, channel.send).  The polling loop is modelled step by step   *)
(* with a program counter pc; the pcs in AwaitPoints are the awaits, and   *)
(* every handler action is guarded by pc \in AwaitPoints.                   *)
(***************************************************************************)
EXTENDS Integers, Sequences, FiniteSets, TLC

\* ------------------------------------------------------------ universe
\* The largest action id the leaderboard API reports.
MaxAction == 2

\* The guilds (Discord ids) the bot can be added to: the tenant a step is
\* about and one other, with a one-digit and a two-digit key.
Guilds == {9, 10}
\* The text channels of each guild: the stored destination and one other.
\* A channel id is the pair <<guild, n>>.
Channels == {1, 2}
ChannelIds == Guilds \X Channels
ActionIds == 1..MaxAction

VARIABLES
    db,                \* the ServerDatabase: [data: self.data['servers'], file: servers.json]
                       \* (file: whether it exists, and the servers it holds)
    member,            \* bot.guilds: the guilds the bot is in
    channels,          \* the channels bot.get_channel resolves
    pc,                \* where monitoring_task is
    latest_action_id,  \* monitoring_task local
    active_servers,    \* monitoring_task local: the items of the snapshot the for loop has yet to reach
    server_info,       \* monitoring_task local: the item the for loop is at
    updates_sent,      \* monitoring_task local
    diff,              \* monitoring_task local: what fetch_diff returned
    ret,               \* the return path send_update_to_server took for server_info
    observed           \* history: the largest head fetch_leaderboard has returned so far

vars == <<db, member, channels, pc, latest_action_id, active_servers, server_info,
          updates_sent, diff, ret, observed>>

\* ------------------------------------------------------- conversions
\* str(guild_id): the decimal digits, most significant first.
RECURSIVE str(_)
str(n) == IF n < 10 THEN <<n>> ELSE Append(str(n \div 10), n % 10)

\* int(guild_id): parses a digit string.
RECURSIVE int(_)
int(s) == IF Len(s) = 0 THEN 0
          ELSE 10 * int(SubSeq(s, 1, Len(s) - 1)) + s[Len(s)]

\* ------------------------------------------------------ ServerDatabase
\* `guild_id in self.data['servers']`
HasKey(data, k) == \E i \in DOMAIN data : data[i].key = k

\* self.data['servers'][k]
Lookup(data, k) == data[CHOOSE i \in DOMAIN data : data[i].key = k]

\* self.data['servers'][k] = entry: a dict keeps a present key's position
\* and appends a new key.
SetItem(data, k, entry) ==
    IF HasKey(data, k)
    THEN [i \in DOMAIN data |-> IF data[i].key = k THEN entry ELSE data[i]]
    ELSE Append(data, entry)

\* del self.data['servers'][k]
DelItem(data, k) == SelectSeq(data, LAMBDA e : e.key # k)

\* servers.json before the first run.
NoFile == [exists |-> FALSE, servers |-> <<>>]

\* save_database that writes nothing.
save_database_noop(d) == d

\* json.dump(self.data, f): the file holds what the store holds.
save_database(d) == [d EXCEPT !.file = [exists |-> TRUE, servers |-> d.data]]

\* load_database with no servers.json: FileNotFoundError, empty store, saved.
load_database == save_database([data |-> <<>>, file |-> NoFile])

\* guild.name and channel.name: the labels of a guild and of a channel.
GuildName(g) == [guild |-> g]
ChannelName(c) == [channel |-> c]

\* The entry is written whole.  added_at (the time of the call) is left out:
\* nothing reads it.
add_server(d, guild_id, channel_id, guild_name, channel_name) ==
    save_database([d EXCEPT !.data =
        SetItem(d.data, str(guild_id),
                [key |-> str(guild_id), channel_id |-> channel_id,
                 enabled |-> TRUE, last_action_id |-> 0,
                 guild_name |-> guild_name, channel_name |-> channel_name])])

\* remove_server that forgets the delete.
remove_server_noop(d, guild_id) == d

\* remove_server with popitem() for the guarded del: the entry added last
\* goes, whatever its key.
remove_server_popitem(d, guild_id) ==
    IF Len(d.data) > 0
    THEN save_database([d EXCEPT !.data = SubSeq(d.data, 1, Len(d.data) - 1)])
    ELSE d

remove_server(d, guild_id) ==
    IF HasKey(d.data, str(guild_id))
    THEN save_database([d EXCEPT !.data = DelItem(d.data, str(guild_id))])
    ELSE d

\* The flag set by writing the entry anew, the way add_server does.
SetEnabled_rewrite(d, guild_id, b) ==
    IF HasKey(d.data, str(guild_id))
    THEN save_database([d EXCEPT !.data =
             SetItem(d.data, str(guild_id),
                     [Lookup(d.data, str(guild_id)) EXCEPT !.enabled = b,
                                                           !.last_action_id = 0])])
    ELSE d

\* disable_server and enable_server, which differ in the value assigned.
SetEnabled(d, guild_id, b) ==
    IF HasKey(d.data, str(guild_id))
    THEN save_database([d EXCEPT !.data =
             SetItem(d.data, str(guild_id),
                     [Lookup(d.data, str(guild_id)) EXCEPT !.enabled = b])])
    ELSE d

disable_server(d, guild_id) == SetEnabled(d, guild_id, FALSE)

enable_server(d, guild_id) == SetEnabled(d, guild_id, TRUE)

\* One element of the list get_active_servers builds.
ServerInfo(e) == [guild_id |-> int(e.key), channel_id |-> e.channel_id,
                  last_action_id |-> e.last_action_id]

\* get_active_servers without the enabled test.
get_active_servers_all(d) == [i \in DOMAIN d.data |-> ServerInfo(d.data[i])]

\* get_active_servers appending each enabled server once per pass over a
\* list that is walked twice.
get_active_servers_twice(d) ==
    LET on == SelectSeq(d.data, LAMBDA e : e.enabled)
        once == [i \in DOMAIN on |-> ServerInfo(on[i])]
    IN  once \o once

get_active_servers(d) ==
    LET on == SelectSeq(d.data, LAMBDA e : e.enabled)
    IN  [i \in DOMAIN on |-> ServerInfo(on[i])]

\* update_last_action_id with setdefault for the guard: an entry is made for
\* a tenant that has none.
update_last_action_id_setdefault(d, guild_id, action_id) ==
    save_database([d EXCEPT !.data =
        SetItem(d.data, str(guild_id),
                IF HasKey(d.data, str(guild_id))
                THEN [Lookup(d.data, str(guild_id)) EXCEPT !.last_action_id = action_id]
                ELSE [key |-> str(guild_id), channel_id |-> <<0, 0>>,
                      enabled |-> TRUE, last_action_id |-> action_id,
                      guild_name |-> GuildName(guild_id),
                      channel_name |-> ChannelName(<<0, 0>>)])])

\* update_last_action_id that forgets the assignment.
update_last_action_id_noop(d, guild_id, action_id) == d

update_last_action_id(d, guild_id, action_id) ==
    IF HasKey(d.data, str(guild_id))
    THEN save_database([d EXCEPT !.data =
             SetItem(d.data, str(guild_id),
                     [Lookup(d.data, str(guild_id)) EXCEPT !.last_action_id = action_id])])
    ELSE d

get_server_count(d) == Len(SelectSeq(d.data, LAMBDA e : e.enabled))

\* ------------------------------------------------------- format_diff
\* What fetch_diff returns, by what format_diff does with it:
\*   "none"       None: the request failed (fetch_json lines 108-114)
\*   "empty"      an empty list
\*   "records"    a non-empty list of well-formed change records
\*   "malformed"  a non-empty body format_diff cannot render (its entries are
\*                not dicts, or total_experience_diff is not a number)
DiffResults == {"none", "empty", "records", "malformed"}
\* diff before fetch_diff was called for server_info.
NoDiff == "unset"

\* format_diff that tests `data is None`: an empty list yields a message.
format_diff_empty_msg(data) ==
    IF data = "none"
    THEN [raised |-> FALSE, msg |-> FALSE]
    ELSE IF data = "malformed"
         THEN [raised |-> TRUE, msg |-> FALSE]
         ELSE [raised |-> FALSE, msg |-> TRUE]

\* format_diff: raised, or whether msg is non-empty.
format_diff(data) ==
    IF data \in {"none", "empty"}
    THEN [raised |-> FALSE, msg |-> FALSE]
    ELSE IF data = "malformed"
         THEN [raised |-> TRUE, msg |-> FALSE]
         ELSE [raised |-> FALSE, msg |-> TRUE]

\* ----------------------------------------------------------- platform
\* bot.get_channel(channel_id)
get_channel(channel_id) == channel_id \in channels

\* server_info between two iterations of the for loop.
NoServer == [guild_id |-> 0, channel_id |-> <<0, 0>>, last_action_id |-> 0]

AwaitPoints == {"WAITING", "FETCHING_HEAD", "FETCHING_DIFF", "SENDING"}

Locals == <<latest_action_id, active_servers, server_info, updates_sent, diff, ret>>
Poll == <<pc, latest_action_id, active_servers, server_info, updates_sent, diff, ret,
          observed>>

\* The locals of monitoring_task are dead outside a cycle.
ResetLocals ==
    /\ latest_action_id' = 0
    /\ active_servers' = <<>>
    /\ server_info' = NoServer
    /\ updates_sent' = 0
    /\ diff' = NoDiff
    /\ ret' = "none"

Init ==
    /\ db = load_database
    /\ member = {}
    /\ channels = {}
    /\ pc = "WAITING"
    /\ latest_action_id = 0
    /\ active_servers = <<>>
    /\ server_info = NoServer
    /\ updates_sent = 0
    /\ diff = NoDiff
    /\ ret = "none"
    /\ observed = 0

\* ------------------------------------------------------------ handlers
\* The bot is added to a guild whose text channels are chs; suitable is the
\* first suitable channel, or 0 when suitable_channels is empty.
on_guild_join(g, chs, suitable) ==
    /\ pc \in AwaitPoints
    /\ g \notin member
    /\ member' = member \cup {g}
    /\ channels' = channels \cup ({g} \X chs)
    /\ db' = IF suitable = 0
             THEN db
             ELSE add_server(db, g, <<g, suitable>>, GuildName(g),
                             ChannelName(<<g, suitable>>))
    /\ UNCHANGED Poll

\* The bot leaves a guild: its channels leave the cache, then the handler runs.
on_guild_remove(g) ==
    /\ pc \in AwaitPoints
    /\ g \in member
    /\ member' = member \ {g}
    /\ channels' = {c \in channels : c[1] # g}
    /\ db' = remove_server(db, g)
    /\ UNCHANGED Poll

\* /cqc_channel by an administrator, with a channel the bot may post in.
cqc_channel(g, c) ==
    /\ pc \in AwaitPoints
    /\ g \in member
    /\ <<g, c>> \in channels
    /\ db' = add_server(db, g, <<g, c>>, GuildName(g), ChannelName(<<g, c>>))
    /\ UNCHANGED <<member, channels, Poll>>

\* /cqc_this_channel by an administrator, in a channel the bot may post in.
cqc_this_channel(g, c) ==
    /\ pc \in AwaitPoints
    /\ g \in member
    /\ <<g, c>> \in channels
    /\ db' = add_server(db, g, <<g, c>>, GuildName(g), ChannelName(<<g, c>>))
    /\ UNCHANGED <<member, channels, Poll>>

cqc_enable(g) ==
    /\ pc \in AwaitPoints
    /\ g \in member
    /\ db' = enable_server(db, g)
    /\ UNCHANGED <<member, channels, Poll>>

cqc_disable(g) ==
    /\ pc \in AwaitPoints
    /\ g \in member
    /\ db' = disable_server(db, g)
    /\ UNCHANGED <<member, channels, Poll>>

\* A text channel of a guild is deleted, or created, on the platform.
channel_delete(g, c) ==
    /\ pc \in AwaitPoints
    /\ <<g, c>> \in channels
    /\ channels' = channels \ {<<g, c>>}
    /\ UNCHANGED <<db, member, Poll>>

channel_create(g, c) ==
    /\ pc \in AwaitPoints
    /\ g \in member
    /\ <<g, c>> \notin channels
    /\ channels' = channels \cup {<<g, c>>}
    /\ UNCHANGED <<db, member, Poll>>

\* ------------------------------------------------------ monitoring_task
\* asyncio.sleep(60) (or, before the first cycle, bot.wait_until_ready)
\* returns; the loop calls fetch_leaderboard.
Wake ==
    /\ pc = "WAITING"
    /\ pc' = "FETCHING_HEAD"
    /\ UNCHANGED <<db, member, channels, Locals, observed>>

\* fetch_leaderboard returned None or an empty body: sleep, continue.
HeadFailed ==
    /\ pc = "FETCHING_HEAD"
    /\ pc' = "WAITING"
    /\ ResetLocals
    /\ UNCHANGED <<db, member, channels, observed>>

\* fetch_leaderboard returned a body without leaderboard[0]["action_id"].
HeadMalformed ==
    /\ pc = "FETCHING_HEAD"
    /\ pc' = "EXCEPT"
    /\ UNCHANGED <<db, member, channels, Locals, observed>>

\* fetch_leaderboard returned head h (line 183 reads it before the servers
\* are listed); the active servers are listed.
HeadFetched(h) ==
    /\ pc = "FETCHING_HEAD"
    /\ IF Len(get_active_servers(db)) = 0
       THEN /\ pc' = "WAITING"
            /\ ResetLocals
       ELSE /\ pc' = "LOOP"
            /\ latest_action_id' = h
            /\ active_servers' = get_active_servers(db)
            /\ updates_sent' = 0
            /\ UNCHANGED <<server_info, diff, ret>>
    /\ observed' = IF h > observed THEN h ELSE observed
    /\ UNCHANGED <<db, member, channels>>

\* The condition of line 195 with >= for >.
Lagging_ge(info, latest) == latest >= info.last_action_id

\* The condition of line 195 for one server_info.
Lagging(info, latest) == latest > info.last_action_id

\* for server_info in active_servers: the loop ends, skips a server that is
\* up to date, or calls fetch_diff.
ForNext ==
    /\ pc = "LOOP"
    /\ IF Len(active_servers) = 0
       THEN /\ pc' = "WAITING"
            /\ ResetLocals
       ELSE /\ active_servers' = Tail(active_servers)
            /\ IF Lagging(Head(active_servers), latest_action_id)
               THEN pc' = "FETCHING_DIFF" /\ server_info' = Head(active_servers)
               ELSE pc' = "LOOP" /\ server_info' = NoServer
            /\ diff' = NoDiff
            /\ ret' = "none"
            /\ UNCHANGED <<latest_action_id, updates_sent>>
    /\ UNCHANGED <<db, member, channels, observed>>

\* fetch_diff returned d: format_diff, and with a message the first half of
\* send_update_to_server, up to `await channel.send`.
DiffFetched(d) ==
    /\ pc = "FETCHING_DIFF"
    /\ diff' = d
    /\ IF format_diff(d).raised
       THEN /\ pc' = "EXCEPT"
            /\ UNCHANGED <<db, server_info, ret>>
       ELSE IF ~format_diff(d).msg
       THEN /\ pc' = "LOOP"
            /\ server_info' = NoServer
            /\ UNCHANGED <<db, ret>>
       ELSE IF ~get_channel(server_info.channel_id)
       THEN /\ pc' = "SENT"
            /\ ret' = "no_channel"
            /\ db' = remove_server(db, server_info.guild_id)
            /\ UNCHANGED server_info
       ELSE /\ pc' = "SENDING"
            /\ UNCHANGED <<db, server_info, ret>>
    /\ UNCHANGED <<member, channels, observed, latest_action_id, active_servers, updates_sent>>

\* The ways `await channel.send(embed=embed)` ends.
SendOutcomes == {"sent", "forbidden", "not_found", "error"}

\* The second half of send_update_to_server with discord.Forbidden caught
\* by the handler of discord.NotFound.
SendDone_forbidden_removes(outcome) ==
    /\ pc = "SENDING"
    /\ pc' = "SENT"
    /\ ret' = outcome
    /\ db' = IF outcome \in {"not_found", "forbidden"}
             THEN remove_server(db, server_info.guild_id)
             ELSE db
    /\ UNCHANGED <<member, channels, observed, latest_action_id, active_servers, server_info,
                   updates_sent, diff>>

\* The second half of send_update_to_server.
SendDone(outcome) ==
    /\ pc = "SENDING"
    /\ pc' = "SENT"
    /\ ret' = outcome
    /\ db' = IF outcome = "not_found"
             THEN remove_server(db, server_info.guild_id)
             ELSE db
    /\ UNCHANGED <<member, channels, observed, latest_action_id, active_servers, server_info,
                   updates_sent, diff>>

\* sent = (the value send_update_to_server returned)
sent == ret = "sent"

\* Lines 214-218 without `if not sent: continue`: the cursor advances
\* whatever send_update_to_server returned.
AfterSend_always ==
    /\ pc = "SENT"
    /\ pc' = "LOOP"
    /\ server_info' = NoServer
    /\ updates_sent' = updates_sent + 1
    /\ db' = update_last_action_id(db, server_info.guild_id, latest_action_id)
    /\ UNCHANGED <<member, channels, observed, latest_action_id, active_servers, diff, ret>>

\* Lines 214-218 storing the id after the head as the cursor.
AfterSend_next ==
    /\ pc = "SENT"
    /\ pc' = "LOOP"
    /\ server_info' = NoServer
    /\ IF sent
       THEN /\ updates_sent' = updates_sent + 1
            /\ db' = update_last_action_id(db, server_info.guild_id,
                                           latest_action_id + 1)
       ELSE UNCHANGED <<updates_sent, db>>
    /\ UNCHANGED <<member, channels, observed, latest_action_id, active_servers, diff, ret>>

\* Lines 214-218: `if not sent: continue`, else count and advance the cursor.
AfterSend ==
    /\ pc = "SENT"
    /\ pc' = "LOOP"
    /\ server_info' = NoServer
    /\ IF sent
       THEN /\ updates_sent' = updates_sent + 1
            /\ db' = update_last_action_id(db, server_info.guild_id,
                                           latest_action_id)
       ELSE UNCHANGED <<updates_sent, db>>
    /\ UNCHANGED <<member, channels, observed, latest_action_id, active_servers, diff, ret>>

\* The loop without its `except Exception`: the exception ends the task.
HandleException_propagates ==
    /\ pc = "EXCEPT"
    /\ pc' = "RAISED"
    /\ ResetLocals
    /\ UNCHANGED <<db, member, channels, observed>>

\* The sleep of line 228 placed inside the try block: the except clause
\* goes straight to the next fetch_leaderboard.
HandleException_nosleep ==
    /\ pc = "EXCEPT"
    /\ pc' = "FETCHING_HEAD"
    /\ ResetLocals
    /\ UNCHANGED <<db, member, channels, observed>>

\* except Exception (line 225): log, then sleep.
HandleException ==
    /\ pc = "EXCEPT"
    /\ pc' = "WAITING"
    /\ ResetLocals
    /\ UNCHANGED <<db, member, channels, observed>>

\* The bot is shut down: bot.run returns and cancels the task at the await
\* it is suspended in, or `while not bot.is_closed()` ends the loop after the
\* sleep.  No handler runs afterwards.
Close ==
    /\ pc \in AwaitPoints
    /\ pc' = "CLOSED"
    /\ ResetLocals
    /\ UNCHANGED <<db, member, channels, observed>>

\* One step of monitoring_task.
monitoring_task ==
    \/ Wake
    \/ HeadFailed
    \/ HeadMalformed
    \/ \E h \in ActionIds : HeadFetched(h)
    \/ ForNext
    \/ \E d \in DiffResults : DiffFetched(d)
    \/ \E o \in SendOutcomes : SendDone(o)
    \/ AfterSend
    \/ HandleException

Next ==
    \/ \E g \in Guilds, chs \in SUBSET Channels, s \in {0} \cup Channels :
           (s = 0 \/ s \in chs) /\ on_guild_join(g, chs, s)
    \/ \E g \in Guilds : on_guild_remove(g)
    \/ \E g \in Guilds, c \in Channels : cqc_channel(g, c)
    \/ \E g \in Guilds, c \in Channels : cqc_this_channel(g, c)
    \/ \E g \in Guilds : cqc_enable(g)
    \/ \E g \in Guilds : cqc_disable(g)
    \/ \E g \in Guilds, c \in Channels : channel_delete(g, c)
    \/ \E g \in Guilds, c \in Channels : channel_create(g, c)
    \/ Wake
    \/ HeadFailed
    \/ HeadMalformed
    \/ \E h \in ActionIds : HeadFetched(h)
    \/ ForNext
    \/ \E d \in DiffResults : DiffFetched(d)
    \/ \E o \in SendOutcomes : SendDone(o)
    \/ AfterSend
    \/ HandleException
    \/ Close

Spec == Init /\ [][Next]_vars

\* The event loop resumes monitoring_task once the future it awaits is done,
\* and every await of the loop ends: asyncio.sleep(60) after a minute, the
\* HTTP requests and channel.send with a result or an exception.
FairSpec == Spec /\ WF_vars(monitoring_task)

\* The program with one text channel in each guild.
DeliveryChannels == {1}

DeliveryNext ==
    \/ \E g \in Guilds, chs \in SUBSET DeliveryChannels, s \in {0} \cup DeliveryChannels :
           (s = 0 \/ s \in chs) /\ on_guild_join(g, chs, s)
    \/ \E g \in Guilds : on_guild_remove(g)
    \/ \E g \in Guilds, c \in DeliveryChannels : cqc_channel(g, c)
    \/ \E g \in Guilds, c \in DeliveryChannels : cqc_this_channel(g, c)
    \/ \E g \in Guilds : cqc_enable(g)
    \/ \E g \in Guilds : cqc_disable(g)
    \/ \E g \in Guilds, c \in DeliveryChannels : channel_delete(g, c)
    \/ \E g \in Guilds, c \in DeliveryChannels : channel_create(g, c)
    \/ monitoring_task
    \/ Close

\* The loop is resumed after every await, the head fetch succeeds again and
\* again, and for each tenant the loop reaches again and again the diff
\* fetch returns records and channel.send succeeds again and again.
DeliverySpec ==
    /\ Init /\ [][DeliveryNext]_vars
    /\ WF_vars(monitoring_task)
    /\ SF_vars(\E h \in ActionIds : HeadFetched(h))
    /\ \A g \in Guilds :
          /\ SF_vars(DiffFetched("records") /\ server_info.guild_id = g)
          /\ SF_vars(SendDone("sent") /\ server_info.guild_id = g)

\* ---------------------------------------------------------- vocabulary
\* The tenant g is in the store.
Present(g) == HasKey(db.data, str(g))
\* The stored cursor of tenant g (0 when g is not in the store).
Cursor(g) == IF Present(g) THEN Lookup(db.data, str(g)).last_action_id ELSE 0
\* The enabled flag of tenant g (FALSE when g is not in the store).
IsEnabled(g) == Present(g) /\ Lookup(db.data, str(g)).enabled
\* The stored destination of tenant g.
Destination(g) == Lookup(db.data, str(g)).channel_id
\* The tenant ids listActive() returns.
ActiveIds == {get_active_servers(db)[i].guild_id : i \in DOMAIN get_active_servers(db)}
\* A step that calls add_server for tenant g.
Upsert(g) ==
    \/ \E c \in Channels : cqc_channel(g, c)
    \/ \E c \in Channels : cqc_this_channel(g, c)
    \/ \E chs \in SUBSET Channels, c \in Channels : c \in chs /\ on_guild_join(g, chs, c)
\* send_update_to_server returned through a path that removes the tenant.
PermanentFailure == ret \in {"no_channel", "not_found"}
\* The control state of the polling loop a pc belongs to.  The for loop and
\* the awaits inside it are PER_TENANT_LOOP; get_active_servers (line 184)
\* runs in the step that receives the head, with no await in between, so
\* listing the tenants is the step from FETCHING_HEAD itself.
Control(p) ==
    IF p \in {"LOOP", "FETCHING_DIFF", "SENDING", "SENT"} THEN "PER_TENANT_LOOP" ELSE p
\* The transitions of the control state: the normal path, the no-head and
\* no-tenant paths, the exception path, and shutdown.
Graph ==
    {<<"WAITING", "FETCHING_HEAD">>,
     <<"FETCHING_HEAD", "WAITING">>,
     <<"FETCHING_HEAD", "PER_TENANT_LOOP">>,
     <<"PER_TENANT_LOOP", "WAITING">>,
     <<"FETCHING_HEAD", "EXCEPT">>,
     <<"PER_TENANT_LOOP", "EXCEPT">>,
     <<"EXCEPT", "WAITING">>,
     <<"WAITING", "CLOSED">>,
     <<"FETCHING_HEAD", "CLOSED">>,
     <<"PER_TENANT_LOOP", "CLOSED">>}
\* send_update_to_server returned False and kept the tenant.
TransientFailure == ret \in {"forbidden", "error"}

\* The head of the cycle in progress is h and tenant g, enabled, is behind it.
Owed(g, h) == IsEnabled(g) /\ Cursor(g) < h /\ latest_action_id = h
\* channel.send has just succeeded for tenant g with the diff of head h.
Delivered(g, h) ==
    pc = "SENT" /\ ret = "sent" /\ server_info.guild_id = g /\ latest_action_id = h
\* Tenant g is not registered and enabled with a destination that resolves,
\* or a head other than h was fetched, or the bot was shut down.
Released(g, h) ==
    \/ ~IsEnabled(g)
    \/ ~get_channel(Destination(g))
    \/ latest_action_id \notin {0, h}
    \/ pc = "CLOSED"

\* The pcs of a cycle past its head fetch.
InCycle == {"LOOP", "FETCHING_DIFF", "SENDING", "SENT"}
\* The tenant ids the for loop has yet to reach.
Remaining == {active_servers[i].guild_id : i \in DOMAIN active_servers}

\* --------------------------------------------------------------- claims

\* C1: across store operations and poll cycles, the stored cursor of a tenant
\* that stays in the store never decreases: in every step cursor' >= cursor.
C1_CursorNeverDecreases ==
    [][\A g \in Guilds : Present(g) /\ Present(g)' => Cursor(g)' >= Cursor(g)]_vars

\* C2: upsert on a tenant already in the store keeps its cursor and sets
\* enabled; on a tenant not in the store it creates the entry with cursor 0
\* and enabled.
C2_UpsertKeepsCursor ==
    [][\A g \in Guilds : Upsert(g) =>
          /\ Present(g)'
          /\ IsEnabled(g)'
          /\ Cursor(g)' = Cursor(g)]_vars

\* C3: the Dispatcher never delivers a notification to a tenant that is not
\* in the store at the moment of delivery: when send_update_to_server resolves
\* the channel and calls channel.send, the tenant is in the store.
C3_NoDeliveryToAbsentTenant ==
    [][pc = "FETCHING_DIFF" /\ pc' = "SENDING" => Present(server_info.guild_id)]_vars

\* C4: the polling loop never passes to the Dispatcher (the step out of
\* fetch_diff that calls send_update_to_server), and never advances the
\* cursor of (the step after a successful send), a tenant whose enabled flag
\* is false at that moment.
C4_DisabledNeverDispatched ==
    [][/\ pc = "FETCHING_DIFF" /\ pc' \in {"SENDING", "SENT"}
          /\ Present(server_info.guild_id)
          => IsEnabled(server_info.guild_id)
       /\ \A g \in Guilds :
            pc = "SENT" /\ server_info.guild_id = g /\ Present(g)
            /\ Cursor(g)' # Cursor(g)
            => IsEnabled(g)]_vars

\* C5: when processing one tenant raises, the remaining tenants of the same
\* cycle are still processed: the step after the exception goes on with the
\* for loop.
C5_ExceptionKeepsCycle ==
    [][pc = "EXCEPT" /\ Len(active_servers) > 0 => pc' = "LOOP"]_vars

\* C6: after any sequence of upsert, remove and setEnabled steps, listActive()
\* returns exactly the tenants in the store with enabled = TRUE, each once: no
\* disabled tenant, and no tenant of a guild the bot has left, is returned,
\* and no enabled tenant of the store is missing.
C6_ListActiveExact ==
    /\ ActiveIds = {g \in Guilds : IsEnabled(g)}
    /\ Len(get_active_servers(db)) = Cardinality(ActiveIds)
    /\ ActiveIds \subseteq member

\* C6 witness: two tenants in the store, one of them disabled, and
\* listActive() returns one.
C6_Witness ==
    /\ Len(db.data) = 2
    /\ Cardinality(ActiveIds) = 1
    /\ \E g \in Guilds : Present(g) /\ ~IsEnabled(g)

\* C7: a tenant whose cursor (the snapshot's, or the stored one) is >= the
\* head of the cycle is skipped: no diff is fetched, nothing is passed to the
\* Dispatcher, the store is unchanged; and a diff fetch or a send is only in
\* progress for a tenant whose cursors are below the head.
C7_UpToDateSkipped ==
    [][/\ /\ pc = "LOOP" /\ Len(active_servers) > 0
          /\ \/ Head(active_servers).last_action_id >= latest_action_id
             \/ Cursor(Head(active_servers).guild_id) >= latest_action_id
          => pc' = "LOOP" /\ db' = db /\ ret' = "none" /\ diff' = NoDiff
             /\ updates_sent' = updates_sent
       /\ pc' \in {"FETCHING_DIFF", "SENDING", "SENT"}
          => /\ server_info'.last_action_id < latest_action_id'
             /\ \A g \in Guilds : server_info'.guild_id = g
                   => Cursor(g)' < latest_action_id']_vars

\* C7 witness: the for loop is at a tenant whose stored cursor equals the head.
C7_Witness ==
    /\ pc = "LOOP" /\ Len(active_servers) > 0
    /\ Head(active_servers).last_action_id = latest_action_id
    /\ Cursor(Head(active_servers).guild_id) = latest_action_id

\* C8, as claimed: when the Dispatcher reports success for a tenant, the
\* step that follows leaves that tenant with a stored cursor equal to the
\* head of the cycle.
C8_SuccessSetsCursor ==
    [][pc = "SENT" /\ ret = "sent"
       => \A g \in Guilds : server_info.guild_id = g
            => Present(g)' /\ Cursor(g)' = latest_action_id]_vars

\* C8, amended: when the Dispatcher reports success for a tenant that is
\* still in the store, the step that follows sets its stored cursor to the
\* head of the cycle; and a stored cursor only ever rises in that step, to
\* that head.
C8_SuccessSetsCursorIfPresent ==
    [][/\ pc = "SENT" /\ ret = "sent"
          => \A g \in Guilds : server_info.guild_id = g /\ Present(g)
               => Present(g)' /\ Cursor(g)' = latest_action_id
       /\ db' # db
          => \A g \in Guilds : Cursor(g)' > Cursor(g)
               => /\ pc = "SENT" /\ ret = "sent" /\ server_info.guild_id = g
                  /\ Present(g)
                  /\ Cursor(g)' = latest_action_id]_vars

\* C8 witness: a delivery succeeded for a tenant that is still in the store
\* and whose cursor is behind the head.
C8_Witness ==
    /\ pc = "SENT" /\ ret = "sent"
    /\ Present(server_info.guild_id)
    /\ Cursor(server_info.guild_id) < latest_action_id

\* C9: when fetch_diff returns None or an empty list for a lagging tenant,
\* nothing is passed to the Dispatcher and the store (the tenant's cursor
\* included) is unchanged: the loop goes on to the next tenant.
C9_NoDiffNoDelivery ==
    [][pc = "FETCHING_DIFF" /\ pc' # "FETCHING_DIFF" /\ diff' \in {"none", "empty"}
       => /\ pc' = "LOOP"
          /\ db' = db
          /\ ret' = "none"
          /\ updates_sent' = updates_sent
          /\ active_servers' = active_servers]_vars

\* C9 witness: the loop has just skipped a lagging tenant whose diff was
\* empty, and the tenant is still in the store with its cursor behind.
C9_Witness ==
    /\ pc = "LOOP" /\ diff = "empty"
    /\ \E g \in Guilds : Present(g) /\ IsEnabled(g) /\ Cursor(g) = 0

\* C10: when a delivery ends in permanent failure (the destination is missing
\* or deleted) the tenant is out of the store and out of listActive(), and
\* the step that follows neither advances a cursor nor raises: the store is
\* unchanged and the for loop goes on.
C10_PermanentFailureRemoves ==
    [][/\ PermanentFailure' /\ (pc' = "SENT")
          => /\ \A g \in Guilds : server_info'.guild_id = g => ~Present(g)'
             /\ server_info'.guild_id \notin ActiveIds'
       /\ pc = "SENT" /\ PermanentFailure
          => pc' = "LOOP" /\ db' = db /\ updates_sent' = updates_sent]_vars

\* C10 witness: channel.send raised NotFound for a tenant, which is gone
\* from the store while another tenant is still to be processed.
C10_Witness ==
    /\ pc = "SENT" /\ ret = "not_found"
    /\ ~Present(server_info.guild_id)
    /\ Len(active_servers) > 0

\* C11: a delivery that ends in a transient failure (Forbidden, or an
\* exception other than NotFound) leaves the store unchanged, in the step
\* that ends send_update_to_server and in the step of the loop that follows;
\* and whatever a delivery that did not succeed changes in the store is the
\* removal of its tenant on a permanent failure.
C11_TransientFailureKeepsStore ==
    [][/\ pc = "SENDING" /\ pc' = "SENT" /\ TransientFailure' => db' = db
       /\ pc = "SENT" /\ TransientFailure => db' = db /\ pc' = "LOOP"
       /\ /\ \/ pc \in {"FETCHING_DIFF", "SENDING"} /\ pc' = "SENT"
             \/ pc = "SENT"
          /\ ret' # "sent"
          /\ db' # db
          => /\ PermanentFailure'
             /\ db' = remove_server(db, server_info.guild_id)]_vars

\* C11 witness: channel.send raised Forbidden for a tenant that is in the
\* store, enabled, with its cursor behind the head.
C11_Witness ==
    /\ pc = "SENT" /\ ret = "forbidden"
    /\ IsEnabled(server_info.guild_id)
    /\ Destination(server_info.guild_id) = server_info.channel_id
    /\ Cursor(server_info.guild_id) < latest_action_id

\* C12: the loop never ends because of a handled error.  A failed head fetch
\* and an empty tenant list lead straight to the sleep, an exception raised
\* in a cycle is followed by the sleep, and from every state the loop
\* eventually starts a head fetch again unless the bot is shut down.
C12_LoopResumes ==
    /\ [][/\ pc = "EXCEPT" => pc' = "WAITING"
          /\ pc = "FETCHING_HEAD" /\ pc' \notin {"FETCHING_HEAD", "LOOP", "CLOSED"}
             => pc' \in {"WAITING", "EXCEPT"}]_vars
    /\ []<>(pc \in {"FETCHING_HEAD", "CLOSED"})

\* C12 witness: a cycle over two tenants raised, and the loop is in its
\* except clause.
C12_Witness ==
    /\ pc = "EXCEPT"
    /\ diff = "malformed"
    /\ Len(active_servers) > 0

\* C13: the control state of the polling loop changes only along the graph
\* WAITING -> FETCHING_HEAD -> (WAITING | PER_TENANT_LOOP) -> WAITING, with
\* the except clause between a cycle and WAITING on the exception path: a
\* head fetch starts only out of the sleep, the sleep ends only in a head
\* fetch (or in shutdown), and the locals of a cycle are dead in WAITING and
\* FETCHING_HEAD, so that no cycle is in progress when the next one starts.
C13_ControlGraph ==
    [][/\ Control(pc') # Control(pc) => <<Control(pc), Control(pc')>> \in Graph
       /\ pc' = "FETCHING_HEAD" /\ pc # "FETCHING_HEAD" => pc = "WAITING"
       /\ pc = "WAITING" /\ pc' # "WAITING" => pc' \in {"FETCHING_HEAD", "CLOSED"}
       /\ pc' \in {"WAITING", "FETCHING_HEAD"}
          => /\ active_servers' = <<>>
             /\ server_info' = NoServer
             /\ latest_action_id' = 0]_vars

\* C13 witness: a cycle that delivered to a tenant has reached the end of
\* its for loop; its next step is the sleep.
C13_Witness ==
    /\ pc = "LOOP"
    /\ Len(active_servers) = 0
    /\ updates_sent > 0

\* C14: in every reachable state (after the bootstrap load of a missing file,
\* and after every upsert, remove, setEnabled and cursor advance) servers.json
\* exists and holds exactly the in-memory store; and an upsert into an empty
\* store leaves a file with one entry, enabled, with last_action_id 0.
C14_FileEqualsStore ==
    /\ [](db.file = [exists |-> TRUE, servers |-> db.data])
    /\ [][Len(db.data) = 0 /\ (\E g \in Guilds : Upsert(g))
          => /\ Len(db'.file.servers) = 1
             /\ db'.file.servers[1].enabled
             /\ db'.file.servers[1].last_action_id = 0]_vars

\* C14 witness: the file after an advance of the cursor of one tenant and
\* the disabling of another.
C14_Witness ==
    /\ Len(db.file.servers) = 2
    /\ \E i, j \in 1..2 : /\ db.file.servers[i].last_action_id > 0
                          /\ ~db.file.servers[j].enabled

\* C15: remove is idempotent.  For every reachable store and every tenant,
\* removing twice gives the store that removing once gives, and removing a
\* tenant that is not in the store gives the same store; and the steps that
\* call remove_server for a tenant that is not in the store (the bot leaves a
\* guild with no entry, the dispatcher finds the channel of a tenant removed
\* meanwhile gone) leave the store, every other tenant included, unchanged.
C15_RemoveIdempotent ==
    /\ [](\A g \in Guilds :
            /\ remove_server(remove_server(db, g), g) = remove_server(db, g)
            /\ ~Present(g) => remove_server(db, g) = db)
    /\ [][\A g \in Guilds :
            /\ ~Present(g)
            /\ \/ g \in member /\ g \notin member'
               \/ server_info.guild_id = g /\ pc' = "SENT" /\ PermanentFailure'
            => db' = db]_vars

\* C15 witness: the dispatcher called remove_server for a tenant that
\* on_guild_remove had removed while the cycle was suspended, and another
\* tenant is in the store.
C15_Witness ==
    /\ pc = "SENT" /\ PermanentFailure
    /\ server_info.guild_id \notin member
    /\ ~Present(server_info.guild_id)
    /\ Len(db.data) = 1

\* The entries of store d2 are those of store d1, in the same order, but
\* for the enabled flag of tenant g, which is b.
OnlyEnabledDiffers(d1, d2, g, b) ==
    /\ Len(d2.data) = Len(d1.data)
    /\ \A i \in DOMAIN d1.data :
          IF d1.data[i].key = str(g)
          THEN /\ d2.data[i].key = str(g)
               /\ d2.data[i].enabled = b
               /\ d2.data[i].channel_id = d1.data[i].channel_id
               /\ d2.data[i].last_action_id = d1.data[i].last_action_id
               /\ d2.data[i].guild_name = d1.data[i].guild_name
               /\ d2.data[i].channel_name = d1.data[i].channel_name
          ELSE d2.data[i] = d1.data[i]

\* C16: setEnabled changes only the enabled flag.  For every reachable store
\* and every tenant, enable_server and disable_server keep the tenant's
\* destination, cursor and labels and every other entry, keep a disabled
\* tenant in the store, and leave the store as it is (no entry created) when
\* the tenant is not in it; and a step of /cqc_enable or /cqc_disable that
\* changes the store changes it that way.
C16_SetEnabledFrame ==
    /\ [](\A g \in Guilds :
            /\ OnlyEnabledDiffers(db, enable_server(db, g), g, TRUE)
            /\ OnlyEnabledDiffers(db, disable_server(db, g), g, FALSE)
            /\ ~Present(g) => enable_server(db, g) = db /\ disable_server(db, g) = db)
    /\ [][\A g \in Guilds :
            db' # db /\ pc' = pc /\ member' = member
            => /\ cqc_enable(g) => OnlyEnabledDiffers(db, db', g, TRUE)
               /\ cqc_disable(g) => OnlyEnabledDiffers(db, db', g, FALSE)]_vars

\* C16 witness: a tenant whose cursor had advanced is disabled, with its
\* cursor kept, beside another tenant.
C16_Witness ==
    /\ Len(db.data) = 2
    /\ \E g \in Guilds : Present(g) /\ ~IsEnabled(g) /\ Cursor(g) > 0

\* C17: at-least-once delivery.  When the head of a cycle is h and an
\* enabled tenant is behind it, then, unless the tenant stops being
\* registered and enabled with a destination that resolves, or another head
\* is fetched, or the bot is shut down, channel.send eventually succeeds for
\* that tenant with the diff of h; and the step after that success sets the
\* cursor of the tenant to h.
C17_AtLeastOnce ==
    /\ \A g \in Guilds, h \in ActionIds :
          [](Owed(g, h) => <>(Delivered(g, h) \/ Released(g, h)))
    /\ [][\A g \in Guilds, h \in ActionIds :
            Delivered(g, h) /\ Present(g) => Cursor(g)' = h]_vars

\* C17 witness: the largest head is delivered to a tenant whose cursor is at
\* an earlier head, after a cycle that left it behind.
C17_Witness ==
    /\ \E g \in Guilds :
          /\ Delivered(g, MaxAction)
          /\ IsEnabled(g)
          /\ Cursor(g) = MaxAction - 1
    /\ Len(db.data) = 2

\* C18: when the dispatcher removes a tenant from the store because a
\* destination is missing (bot.get_channel returned None, or channel.send
\* raised NotFound), the missing destination is the one stored for that
\* tenant at that moment.
C18_RemovalOnStoredDestination ==
    [][\A g \in Guilds :
         /\ pc' = "SENT" /\ PermanentFailure'
         /\ server_info.guild_id = g
         /\ Present(g) /\ ~Present(g)'
         => Destination(g) = server_info.channel_id]_vars

\* C19: advancing the cursor of a tenant that is not in the store leaves the
\* store unchanged, for every reachable store, tenant and action id; the
\* step after a successful delivery to a tenant removed while the delivery
\* was in flight leaves the store unchanged; and a tenant enters the store
\* only in a step that calls add_server for it.
C19_AdvanceNeverCreates ==
    /\ [](\A g \in Guilds, a \in ActionIds :
            ~Present(g) => update_last_action_id(db, g, a) = db)
    /\ [][/\ pc = "SENT" /\ sent /\ ~Present(server_info.guild_id) => db' = db
          /\ \A g \in Guilds : ~Present(g) /\ Present(g)' => Upsert(g)]_vars

\* C19 witness: channel.send succeeded for a tenant that was removed while
\* the send was in flight; the cursor advance is the next step.
C19_Witness ==
    /\ pc = "SENT" /\ sent
    /\ ~Present(server_info.guild_id)
    /\ server_info.guild_id \notin member

\* C20: every stored cursor is 0 or a head that fetch_leaderboard returned,
\* and none exceeds the largest head returned so far; a cursor changes to a
\* value other than 0 only in the step after channel.send succeeded for its
\* tenant, and then to the head of the cycle in progress, which the head
\* fetch of that cycle returned.
C20_CursorIsDeliveredHead ==
    /\ [](/\ \A g \in Guilds : Cursor(g) \in 0..observed
          /\ latest_action_id \in 0..observed)
    /\ [][/\ \A g \in Guilds :
               Cursor(g)' # Cursor(g) /\ Cursor(g)' # 0
               => /\ Delivered(g, latest_action_id)
                  /\ Cursor(g)' = latest_action_id
          /\ latest_action_id' \notin {0, latest_action_id}
             => /\ pc = "FETCHING_HEAD" /\ pc' = "LOOP"
                /\ latest_action_id' <= observed']_vars

\* C20 witness: a tenant holds the largest head as its cursor while the
\* cycle in progress has a smaller head.
C20_Witness ==
    /\ latest_action_id = 1
    /\ observed = MaxAction
    /\ \E g \in Guilds : IsEnabled(g) /\ Cursor(g) = MaxAction

\* C21: within one cycle the head and the snapshot are taken once.  While a
\* cycle goes on, whatever the handlers do, the head does not change and the
\* list of servers still to reach only loses its first item; no tenant id
\* is in that list twice, and the tenant the loop is at is not in it again,
\* so send_update_to_server is called at most once for a tenant in a cycle;
\* and every cursor advanced in the cycle is set to that one head.
C21_OneHeadOneSnapshot ==
    /\ [](/\ Cardinality(Remaining) = Len(active_servers)
          /\ server_info.guild_id \notin Remaining)
    /\ [][/\ pc \in InCycle /\ pc' \in InCycle
             => /\ latest_action_id' = latest_action_id
                /\ \/ active_servers' = active_servers
                   \/ /\ Len(active_servers) > 0
                      /\ active_servers' = Tail(active_servers)
                /\ \A g \in Guilds : Cursor(g)' > Cursor(g)
                      => Cursor(g)' = latest_action_id
          /\ pc' \in {"SENDING", "SENT"} /\ pc \notin {"SENDING", "SENT"}
             => /\ pc = "FETCHING_DIFF"
                /\ server_info' = server_info]_vars

\* C21 witness: the second delivery of a cycle succeeded, for a tenant whose
\* destination was changed by a handler after the snapshot, and the tenant
\* delivered to first holds the head of the cycle as its cursor.
C21_Witness ==
    /\ pc = "SENT" /\ sent
    /\ updates_sent = 1
    /\ Present(server_info.guild_id)
    /\ Destination(server_info.guild_id) # server_info.channel_id
    /\ \E g \in Guilds : g # server_info.guild_id /\ Cursor(g) = latest_action_id

====
